---- MODULE Spec2Model ----
(***************************************************************************)
(* PocketRelayQoS: the correlation store (service.rs), the HTTP handlers   *)
(* that allocate and consume tokens (http.rs), the firewall UDP ingress    *)
(* (firewall.rs) and the QoS UDP engine (udp.rs).                          *)
(*                                                                         *)
(* Every handler is a task; a task moves one step at a time between the    *)
(* points where the code can be interleaved with other tasks (lock         *)
(* acquisition, the atomic counter, channel send and receive).             *)
(***************************************************************************)
EXTENDS Integers, Sequences, FiniteSets, TLC

VARIABLES
    build,      \* "debug" | "release": the cargo profile the binary was built with
    NEXT_ID,    \* service.rs:15  static NEXT_ID: AtomicU32
    m1,         \* service.rs:11  QService::m1 (token -> QRequestData)
    m2,         \* service.rs:12  QService::m2 (token -> QFirewallData)
    lock1,      \* the RwLock around m1
    lock2,      \* the RwLock around m2
    chan,       \* the mpsc::unbounded_channel of every firewall record
    task,       \* every task: what it runs, where it is, its locals, its outcome
    sent,       \* datagrams handed to a UDP socket with send_to, in order
    drawn,      \* history: values returned by NEXT_ID.fetch_add, in order
    issued,     \* history: tokens returned by create_*_data, in return order
    pushed,     \* history: per firewall token, the addresses the ingress sent
    takes,      \* history: per firewall token, was take_firewall_rx called, how
                \* many calls returned a receiver, what its collection ended with
    outcome,    \* what the handler that ended in the last step returned, if one did
    limits,     \* how many operations that grow the state the environment starts
    cache,      \* udp.rs:245  static PUBLIC_ADDR_CACHE (the value in the RwLock)
    lock3,      \* the RwLock around PUBLIC_ADDR_CACHE
    now,        \* SystemTime::now(), in seconds since the process started
    rounds,     \* history: every pass of public_address through its write
                \* section: when, what the cache held, the lookups made
    local       \* the machine's local non-loopback IPv4 address, if it has one

\* the public address cache and its environment
pavars == <<cache, lock3, now, rounds, local>>

vars == <<build, NEXT_ID, m1, m2, lock1, lock2, chan, task, sent, drawn,
          issued, pushed, takes, outcome, limits, pavars>>

(***************************************************************************)
(* Bounds of the model.                                                    *)
(***************************************************************************)
\* Spec: the store under every handler that uses it
MaxAlloc == 2        \* create_request_data + create_firewall_data calls started
MaxFwPackets == 1    \* firewall datagrams that find the sender of their token
\* SpecFw: firewall-type collections
MaxFwAlloc == 1      \* create_firewall_data calls started
ExtraPackets == 1    \* firewall datagrams for known tokens beyond the 5 collected
\* SpecRoute: two firewall records
MaxRouteAlloc == 2   \* create_firewall_data calls started
MaxRoutePackets == 3 \* firewall datagrams that find the sender of their token
\* SpecFwLive: the same under fair scheduling
ExtraLive == 0       \* firewall datagrams for known tokens beyond the 5 collected
\* SpecQos: the QoS engine
MaxQosAlloc == 1     \* create_request_data calls started
MaxQosPackets == 1   \* QoS datagrams answered
\* SpecCodec: the codecs of the QoS engine
MaxCodecPackets == 1 \* QoS datagrams answered
\* SpecDrop: the datagrams both UDP servers ignore
MaxDropAlloc == 1    \* create_firewall_data calls started
MaxDropPackets == 1  \* QoS datagrams answered
\* SpecPa: the public address cache
MaxRounds == 2       \* public_address calls that go on to the write section
MaxDrift == 2        \* seconds the clock runs past one ADDR_CACHE_TIME

HttpTasks == {"h1", "h2"}
FwTasks == {"f1"}
QosTasks == {"u1"}
PaTasks == {"a1", "a2"}
Tasks == HttpTasks \cup FwTasks \cup QosTasks \cup PaTasks

(***************************************************************************)
(* Program constants.                                                      *)
(***************************************************************************)
FIRST_ID_Sentinel == 2 - 1       \* the counter started at the sentinel's id
FIRST_ID == 2                    \* service.rs:15
U16 == 65536                     \* service.rs:39  `as u16`
QOS_TYPE_ADDRESS == 1            \* http.rs:75
QOS_TYPE_LATENCY == 2            \* http.rs:77
LATENCY_PROBE_COUNT == 5         \* http.rs:80
LATENCY_PROBE_SIZE == 60         \* http.rs:82
FIRE_TYPE == 2                   \* http.rs:253
MAX_ADDRS == 5                   \* http.rs:247
FW_HEADER_LEN == 8               \* firewall.rs:66
QOS_HEADER_LEN == 16             \* udp.rs:151
PAYLOAD_TRIM == 6                \* udp.rs:205
UBPS == 6000000                  \* udp.rs:210  0x005B8D80
UDP_PORT_1 == 17500              \* config.rs:17
UDP_PORT_2 == 17501              \* config.rs:18
SELF_ADDRESS == 2130706433       \* config.rs:19  127.0.0.1 as a big-endian u32
ADDR_CACHE_TIME == 1800          \* udp.rs:248  60 * 30 seconds
LOOKUP_ADDRESSES == 2            \* udp.rs:268  the two lookup endpoints

(***************************************************************************)
(* Option values.                                                          *)
(***************************************************************************)
None == [tag |-> "None"]
Some(v) == [tag |-> "Some", v |-> v]

(***************************************************************************)
(* Bytes: bytes::{Buf, BufMut} as used by the codecs.                      *)
(***************************************************************************)
PutU32(v) == << (v \div 16777216) % 256, (v \div 65536) % 256,
                (v \div 256) % 256, v % 256 >>

PutU32Le(v) == << v % 256, (v \div 256) % 256, (v \div 65536) % 256,
                  (v \div 16777216) % 256 >>

PutU16(v) == << (v \div 256) % 256, v % 256 >>

\* Buf::get_u16 on a buffer known to hold at least 2 bytes
GetU16(b) == b[1] * 256 + b[2]

\* Buf::get_u32 on a buffer known to hold at least 4 bytes
GetU32(b) == b[1] * 16777216 + b[2] * 65536 + b[3] * 256 + b[4]

\* the buffer after Buf::advance(n)
Advance(b, n) == SubSeq(b, n + 1, Len(b))

\* Buf::get_u32 panics when fewer than 4 bytes remain
CanGetU32(b) == Len(b) >= 4

(***************************************************************************)
(* The inputs the environment draws from.                                  *)
(***************************************************************************)
\* values of OsRng::next_u32
RandU32 == {0, 7, 65536 + 7}
\* request ids a client may send: the sentinel's id and the ids the bound allows
IdInputs == 1 .. (FIRST_ID + MaxAlloc - 1)
SecretInputs == {0, 7}
TokenInputs == IdInputs \X SecretInputs
\* socket addresses datagrams arrive from
V4(ip, port) == [v |-> 4, ip |-> ip, port |-> port]
V6(port) == [v |-> 6, ip |-> <<>>, port |-> port]
FwSenders == {V4(<<10, 0, 0, 5>>, 50000), V4(<<10, 0, 0, 5>>, 50001)}
ClientPorts == {7777, 3659}
Versions == {1}
QTypes == {1, 2, 3}

(***************************************************************************)
(* The correlation store: service.rs.                                      *)
(***************************************************************************)
\* AtomicU32::fetch_add(1): the value the counter holds afterwards.  The
\* counter is a u32 and wraps after 2^32 - 1; the bounds stay far below it.
FetchAddLost(n) == n
FetchAdd(n) == n + 1

\* `rand.next_u32() as u16 as u32`
SecretOf(r) == r % U16

\* HashMap::contains_key
ContainsKey(m, k) == k \in DOMAIN m

\* HashMap::insert
Insert(m, k, d) == [x \in DOMAIN m \cup {k} |-> IF x = k THEN d ELSE m[x]]

\* create_request_data: m1.insert((id, secret), data)
InsertRequestEvicting(m, k, d) == [x \in {k} |-> d]
InsertRequest(m, k, d) == Insert(m, k, d)

\* QRequestData { q_type, client_port, version }
QRequestData(q_type, client_port, version) ==
    [q_type |-> q_type, client_port |-> client_port, version |-> version]

\* QFirewallData { tx, rx: Some(rx) }: both ends name the channel of token k
QFirewallData(k) == [tx |-> k, rx |-> Some(k)]

\* a fresh mpsc::unbounded_channel: nothing queued, the receiver alive, one
\* sender (the one the record keeps)
NewChannelUnheld == [queue |-> <<>>, rx_alive |-> TRUE, senders |-> 0]
NewChannel == [queue |-> <<>>, rx_alive |-> TRUE, senders |-> 1]

\* QService::_get_request_data: m1.get(&(id, secret)).cloned()
GetRequestData(m, k) == IF k \in DOMAIN m THEN Some(m[k]) ELSE None

\* QService::get_firewall_tx: m2.get(&(id, secret)).map(|v| v.tx.clone())
GetFirewallTx(m, k) == IF k \in DOMAIN m THEN Some(m[k].tx) ELSE None

\* QService::take_firewall_rx: what the call returns
TakeFirewallRxById(m, k) ==
    IF \E x \in DOMAIN m : x[1] = k[1]
    THEN m[CHOOSE x \in DOMAIN m : x[1] = k[1]].rx
    ELSE None
TakeFirewallRx(m, k) == IF k \in DOMAIN m THEN m[k].rx ELSE None

\* QService::take_firewall_rx: the table after value.rx.take()
AfterTakeKept(m, k) == m
AfterTake(m, k) == IF k \in DOMAIN m THEN [m EXCEPT ![k].rx = None] ELSE m

(***************************************************************************)
(* tokio::sync::RwLock: one writer or any number of readers.               *)
(***************************************************************************)
Unlocked == [w |-> "", r |-> {}]
CanWrite(l) == l.w = "" /\ l.r = {}
CanRead(l) == l.w = ""
WriteLocked(l, t) == [l EXCEPT !.w = t]
ReadLocked(l, t) == [l EXCEPT !.r = @ \cup {t}]
ReleasedKept(l, t) == l
Released(l, t) == [w |-> IF l.w = t THEN "" ELSE l.w, r |-> l.r \ {t}]
\* task t holds a guard of l
Holds(l, t) == l.w = t \/ t \in l.r

(***************************************************************************)
(* Tasks.                                                                  *)
(***************************************************************************)
NoRes == [tag |-> "none"]
NoAddr == [v |-> 0, ip |-> <<>>, port |-> 0]
NoArg == QRequestData(0, 0, 0)
Panicked(msg) == [tag |-> "panic", msg |-> msg]

Idle == [kind |-> "none", pc |-> "idle", key |-> <<0, 0>>, arg |-> NoArg,
         id |-> 0, addrs |-> <<>>, res |-> NoRes, buf |-> <<>>,
         addr |-> NoAddr]

\* create_*_data calls started so far: those that drew their id and those
\* about to
AllocsStarted ==
    Len(drawn) + Cardinality({t \in Tasks : task[t].pc \in {"crd_id", "cfd_id"}})

\* firewall datagrams that found a sender so far: those sent on a channel and
\* those about to be
RECURSIVE SumLen(_, _)
SumLen(f, S) ==
    IF S = {} THEN 0
    ELSE LET k == CHOOSE x \in S : TRUE IN Len(f[k]) + SumLen(f, S \ {k})
FwAccepted ==
    SumLen(pushed, DOMAIN pushed)
        + Cardinality({t \in Tasks : task[t].pc = "fw_send"})

\* a task slot is free when nothing runs in it
Free(t) == task[t].pc = "idle"

Started(kind, pc) == [Idle EXCEPT !.kind = kind, !.pc = pc]

\* a handler that returned res
Finished(kind, res) == [Idle EXCEPT !.kind = kind, !.pc = "done", !.res = res]

\* a handler that panicked: the runtime drops the task, the process goes on
Aborted(kind, msg) ==
    [Idle EXCEPT !.kind = kind, !.pc = "panicked", !.res = Panicked(msg)]

Ended(x) == x.pc \in {"done", "panicked"}

\* task t moves to x; a handler that ended leaves its slot (its locals are
\* gone) and what it ended with is the outcome of the step
Step(t, x) ==
    /\ task' = [task EXCEPT ![t] = IF Ended(x) THEN Idle ELSE x]
    /\ outcome' = IF Ended(x) THEN x ELSE Idle

(***************************************************************************)
(* HTTP handlers: http.rs.                                                 *)
(***************************************************************************)
QResponse(num_probes, qos_port, probe_size, qos_ip, request_id, request_secret) ==
    [tag |-> "QResponse", num_probes |-> num_probes, qos_port |-> qos_port,
     probe_size |-> probe_size, qos_ip |-> qos_ip, request_id |-> request_id,
     request_secret |-> request_secret]

QFirewall(request_id, request_secret) ==
    [tag |-> "QFirewall", ips |-> <<SELF_ADDRESS>>, num_interfaces |-> 1,
     ports |-> <<UDP_PORT_2>>, request_id |-> request_id,
     request_secret |-> request_secret]

QFireType == [tag |-> "QFireType", fire_type |-> FIRE_TYPE]

\* qos with qtyp = QOS_TYPE_ADDRESS: qos_address
QosAddress(t) ==
    /\ t \in HttpTasks /\ Free(t)
    /\ Step(t, Finished("qos_address",
                   QResponse(0, UDP_PORT_1, 0, SELF_ADDRESS, 1, 0)))
    /\ UNCHANGED <<pavars, limits, build, NEXT_ID, m1, m2, lock1, lock2, chan, sent, drawn,
                   issued, pushed, takes>>

\* qos with any other qtyp than the two known: qos_unknown
QosUnknown(t) ==
    /\ t \in HttpTasks /\ Free(t)
    /\ \E qtyp \in QTypes \ {QOS_TYPE_ADDRESS, QOS_TYPE_LATENCY} :
         Step(t, Finished("qos_unknown", QResponse(0, 0, 0, 0, 0, 0)))
    /\ UNCHANGED <<pavars, limits, build, NEXT_ID, m1, m2, lock1, lock2, chan, sent, drawn,
                   issued, pushed, takes>>

\* qos with qtyp = QOS_TYPE_LATENCY: qos_latency calls create_request_data,
\* which takes the write guard of m1 (self.m1.write().await)
QosLatency(t) ==
    /\ t \in HttpTasks /\ Free(t) /\ AllocsStarted < limits.alloc /\ CanWrite(lock1)
    /\ \E port \in ClientPorts, version \in Versions :
         Step(t, [Started("qos_latency", "crd_id") EXCEPT
                     !.arg = QRequestData(QOS_TYPE_LATENCY, port, version)])
    /\ lock1' = WriteLocked(lock1, t)
    /\ UNCHANGED <<pavars, limits, build, NEXT_ID, m1, m2, lock2, chan, sent, drawn, issued,
                   pushed, takes>>

\* create_request_data: NEXT_ID.fetch_add(1, AcqRel)
CrdFetchAdd(t) ==
    /\ task[t].pc = "crd_id"
    /\ NEXT_ID' = FetchAdd(NEXT_ID)
    /\ drawn' = Append(drawn, NEXT_ID)
    /\ Step(t, [task[t] EXCEPT !.pc = "crd_secret", !.id = NEXT_ID])
    /\ UNCHANGED <<pavars, limits, build, m1, m2, lock1, lock2, chan, sent, issued, pushed,
                   takes>>

\* create_request_data: one turn of the secret loop; on a free key the insert,
\* the release of the write guard and qos_latency's response
CrdInsert(t) ==
    /\ task[t].pc = "crd_secret"
    /\ \E r \in RandU32 :
         LET k == <<task[t].id, SecretOf(r)>> IN
         IF ContainsKey(m1, k)
         THEN UNCHANGED <<m1, lock1, task, issued, outcome>>
         ELSE /\ m1' = InsertRequest(m1, k, task[t].arg)
              /\ lock1' = Released(lock1, t)
              /\ issued' = Append(issued, [tok |-> k, tbl |-> "m1",
                                           data |-> task[t].arg])
              /\ Step(t, Finished("qos_latency",
                            QResponse(LATENCY_PROBE_COUNT, UDP_PORT_1,
                                LATENCY_PROBE_SIZE, SELF_ADDRESS, k[1], k[2])))
    /\ UNCHANGED <<pavars, limits, build, NEXT_ID, m2, lock2, chan, sent, drawn, pushed, takes>>

\* firewall: calls create_firewall_data, which takes the write guard of m2
\* (self.m2.write().await)
Firewall(t) ==
    /\ t \in HttpTasks /\ Free(t) /\ AllocsStarted < limits.alloc /\ CanWrite(lock2)
    /\ Step(t, Started("firewall", "cfd_id"))
    /\ lock2' = WriteLocked(lock2, t)
    /\ UNCHANGED <<pavars, limits, build, NEXT_ID, m1, m2, lock1, chan, sent, drawn, issued,
                   pushed, takes>>

\* create_firewall_data: NEXT_ID.fetch_add(1, AcqRel)
CfdFetchAdd(t) ==
    /\ task[t].pc = "cfd_id"
    /\ NEXT_ID' = FetchAdd(NEXT_ID)
    /\ drawn' = Append(drawn, NEXT_ID)
    /\ Step(t, [task[t] EXCEPT !.pc = "cfd_secret", !.id = NEXT_ID])
    /\ UNCHANGED <<pavars, limits, build, m1, m2, lock1, lock2, chan, sent, issued, pushed,
                   takes>>

\* create_firewall_data: one turn of the secret loop; on a free key the new
\* channel, the insert, the release of the write guard and firewall's response
CfdInsert(t) ==
    /\ task[t].pc = "cfd_secret"
    /\ \E r \in RandU32 :
         LET k == <<task[t].id, SecretOf(r)>> IN
         IF ContainsKey(m2, k)
         THEN UNCHANGED <<m2, lock2, chan, task, issued, pushed, takes, outcome>>
         ELSE /\ m2' = Insert(m2, k, QFirewallData(k))
              /\ chan' = Insert(chan, k, NewChannel)
              /\ pushed' = Insert(pushed, k, <<>>)
              /\ takes' = Insert(takes, k, [called |-> FALSE, hits |-> 0,
                                            done |-> FALSE, addrs |-> <<>>])
              /\ lock2' = Released(lock2, t)
              /\ issued' = Append(issued, [tok |-> k, tbl |-> "m2",
                                           data |-> NoArg])
              /\ Step(t, Finished("firewall", QFirewall(k[1], k[2])))
    /\ UNCHANGED <<pavars, limits, build, NEXT_ID, m1, lock1, sent, drawn>>

\* firetype: `.expect("Missing firewall rx")` on what take_firewall_rx returned
ExpectRxOrEmpty(k, r) ==
    IF r.tag = "Some"
    THEN [Started("firetype", "recv") EXCEPT !.key = k]
    ELSE [Finished("firetype", QFireType) EXCEPT !.key = k]
ExpectRx(k, r) ==
    IF r.tag = "Some"
    THEN [Started("firetype", "recv") EXCEPT !.key = k]
    ELSE [Aborted("firetype", "Missing firewall rx") EXCEPT !.key = k]

\* firetype up to its loop: take_firewall_rx for the query's token (the write
\* guard of m2 is taken, value.rx.take(), the guard is released) and the expect
Firetype(t) ==
    /\ t \in HttpTasks /\ Free(t) /\ CanWrite(lock2)
    /\ \E k \in TokenInputs :
         LET r == TakeFirewallRx(m2, k) IN
         /\ m2' = AfterTake(m2, k)
         /\ takes' = IF k \in DOMAIN takes
                     THEN [takes EXCEPT ![k].called = TRUE,
                             ![k].hits = @ + (IF r.tag = "Some" THEN 1 ELSE 0)]
                     ELSE takes
         /\ Step(t, ExpectRx(k, r))
    /\ UNCHANGED <<pavars, limits, build, NEXT_ID, m1, lock1, lock2, chan, sent, drawn, issued,
                   pushed>>

\* the receiver is dropped: the channel is closed and what it still holds is freed
RxDropped(c) == [c EXCEPT !.rx_alive = FALSE, !.queue = <<>>]

\* firetype: addrs.push(addr)
PushFront(addrs, a) == <<a>> \o addrs
Push(addrs, a) == Append(addrs, a)

\* firetype: the loop stops once addrs.len() >= 5
CollectedLate(addrs) == Len(addrs) > MAX_ADDRS
Collected(addrs) == Len(addrs) >= MAX_ADDRS

\* firetype: the handler returns Xml(QFireType { fire_type: 2 }); addrs is
\* what it logged as collected
FiretypeDone(t, addrs) ==
    [Finished("firetype", QFireType) EXCEPT !.key = task[t].key, !.addrs = addrs]

\* firetype: one completed rx.recv().await of the loop: an address is pushed
\* onto addrs, and the loop ends at 5 addresses or when the channel is closed
\* and empty; leaving the handler drops the receiver
FtRecv(t) ==
    /\ task[t].pc = "recv"
    /\ LET k == task[t].key
           c == chan[k]
       IN /\ c.queue # <<>> \/ c.senders = 0
          /\ IF c.queue # <<>>
             THEN LET addrs == Push(task[t].addrs, Head(c.queue)) IN
                  IF Collected(addrs)
                  THEN /\ chan' = [chan EXCEPT ![k] = RxDropped(c)]
                       /\ takes' = [takes EXCEPT ![k].done = TRUE,
                                                 ![k].addrs = addrs]
                       /\ Step(t, FiretypeDone(t, addrs))
                  ELSE /\ chan' = [chan EXCEPT ![k].queue = Tail(c.queue)]
                       /\ takes' = takes
                       /\ Step(t, [task[t] EXCEPT !.addrs = addrs])
             ELSE /\ chan' = [chan EXCEPT ![k] = RxDropped(c)]
                  /\ takes' = [takes EXCEPT ![k].done = TRUE,
                                            ![k].addrs = task[t].addrs]
                  /\ Step(t, FiretypeDone(t, task[t].addrs))
    /\ UNCHANGED <<pavars, limits, build, NEXT_ID, m1, m2, lock1, lock2, sent, drawn, issued,
                   pushed>>

\* a call of _get_request_data: the read guard of m1 is taken, the lookup, the
\* guard is released
Lookup(t) ==
    /\ t \in HttpTasks /\ Free(t) /\ CanRead(lock1)
    /\ \E k \in TokenInputs :
         Step(t, [Finished("lookup", GetRequestData(m1, k)) EXCEPT !.key = k])
    /\ UNCHANGED <<pavars, limits, build, NEXT_ID, m1, m2, lock1, lock2, chan, sent, drawn,
                   issued, pushed, takes>>

(***************************************************************************)
(* The firewall UDP ingress: firewall.rs.                                  *)
(***************************************************************************)
\* the datagram a client builds for token k, cut or padded to len bytes
FwDatagram(k, len) == SubSeq(PutU32(k[1]) \o PutU32(k[2]) \o <<0, 0>>, 1, len)
FwLens == {FW_HEADER_LEN - 1, FW_HEADER_LEN, FW_HEADER_LEN + 1}

\* FirewallRequest::from_buffer
FirewallRequest(b) == <<GetU32(b), GetU32(Advance(b, 4))>>

\* handle: `.expect("Missing request data for request")` on get_firewall_tx
ExpectTxLenient(k, a, r) ==
    [Started("fw_handle", "fw_send") EXCEPT !.key = k, !.addr = a]
ExpectTx(k, a, r) ==
    IF r.tag = "Some"
    THEN [Started("fw_handle", "fw_send") EXCEPT !.key = k, !.addr = a]
    ELSE [Aborted("fw_handle", "Missing request data for request") EXCEPT
            !.key = k, !.addr = a]

\* how many of the 8 header bytes a datagram holds
HeaderBytes(b) == IF Len(b) < FW_HEADER_LEN THEN Len(b) ELSE FW_HEADER_LEN

\* The id of a handler that ended here is the HeaderBytes of its datagram.
\* start_server's recv_from and spawn, and handle up to its send: the length
\* check, the parse, get_firewall_tx (the read guard of m2 is taken, the sender
\* is cloned, the guard is released) and the expect
FwRecvFrom(f) ==
    /\ f \in FwTasks /\ Free(f)
    /\ \E k0 \in TokenInputs, a \in FwSenders, len \in FwLens :
         LET b == FwDatagram(k0, len) IN
         IF Len(b) < FW_HEADER_LEN
         THEN /\ Step(f, [Finished("fw_handle", [tag |-> "dropped"]) EXCEPT
                             !.id = HeaderBytes(b)])
              /\ chan' = chan
         ELSE LET k == FirewallRequest(b)
                  r == GetFirewallTx(m2, k)
              IN /\ CanRead(lock2)
                 /\ r.tag = "Some" => FwAccepted < limits.fw
                 /\ chan' = IF r.tag = "Some"
                            THEN [chan EXCEPT ![r.v].senders = @ + 1]
                            ELSE chan
                 /\ Step(f, [ExpectTx(k, a, r) EXCEPT
                                !.id = IF r.tag = "Some" THEN 0 ELSE HeaderBytes(b)])
    /\ UNCHANGED <<pavars, limits, build, NEXT_ID, m1, m2, lock1, lock2, sent, drawn, issued,
                   pushed, takes>>

\* UnboundedSender::send: queued while the receiver is alive, an error otherwise
SendOnLost(c, a) == c
SendOn(c, a) == IF c.rx_alive THEN [c EXCEPT !.queue = Append(@, a)] ELSE c

\* handle: `_ = rx.send(addr)`, then the cloned sender is dropped
FwSend(f) ==
    /\ task[f].pc = "fw_send"
    /\ LET k == task[f].key IN
       /\ chan' = [chan EXCEPT ![k] = [SendOn(chan[k], task[f].addr) EXCEPT
                                         !.senders = @ - 1]]
       /\ pushed' = [pushed EXCEPT ![k] = Append(@, task[f].addr)]
    /\ Step(f, [Finished("fw_handle", [tag |-> "pushed"]) EXCEPT
                   !.key = task[f].key, !.addr = task[f].addr])
    /\ UNCHANGED <<pavars, limits, build, NEXT_ID, m1, m2, lock1, lock2, sent, drawn, issued,
                   takes>>

(***************************************************************************)
(* The QoS UDP engine: udp.rs.                                             *)
(***************************************************************************)
\* QosHeader::from_buffer
QosHeaderFromBuffer(b) ==
    [u1 |-> GetU32(b), request_id |-> GetU32(Advance(b, 4)),
     request_secret |-> GetU32(Advance(b, 8)),
     probe_number |-> GetU32(Advance(b, 12))]

\* QosHeader::write
QosHeaderWriteLe(h) ==
    PutU32Le(h.u1) \o PutU32Le(h.request_id) \o PutU32Le(h.request_secret)
        \o PutU32Le(h.probe_number)
QosHeaderWrite(h) ==
    PutU32(h.u1) \o PutU32(h.request_id) \o PutU32(h.request_secret)
        \o PutU32(h.probe_number)

\* QosResponseV1::write
QosResponseV1Write(r) ==
    QosHeaderWrite(r.header) \o PutU32(r.timestamp) \o r.ip \o PutU16(r.port)
        \o <<0, 0, 0, 0>>

\* QosResponseV2::write
QosResponseV2WriteBe(r) ==
    QosHeaderWrite(r.header) \o PutU32(r.probe_count) \o PutU32(r.ubps)
        \o PutU16(r.port) \o r.payload
QosResponseV2Write(r) ==
    QosHeaderWrite(r.header) \o PutU32Le(r.probe_count) \o PutU32(r.ubps)
        \o PutU16(r.port) \o r.payload

\* Ipv4Addr::is_loopback, Ipv4Addr::is_private
IsLoopback(ip) == ip[1] = 127
IsPrivate(ip) ==
    \/ ip[1] = 10
    \/ ip[1] = 172 /\ ip[2] >= 16 /\ ip[2] <= 31
    \/ ip[1] = 192 /\ ip[2] = 168

\* `payload.len() - 6` on usize without overflow checks (release): below 6 it
\* wraps to a length above that of every buffer
WrappingSub(a, c) == IF a >= c THEN a - c ELSE 2147483647 - (c - a)

\* BytesMut::truncate: a length above the buffer's own changes nothing
Truncate(p, n) == IF n < Len(p) THEN SubSeq(p, 1, n) ELSE p

\* the port QosResponseV2 carries: addr.port()
ResponseV2Port(addr) == addr.port

\* handle: the test for the V1 address probe
IsAddressProbeById(header) == header.request_id = 1
IsAddressProbe(header) == header.request_id = 1 /\ header.request_secret = 0

\* handle: the datagrams it ignores (too short for a header, or from IPv6)
QosIgnoredShorter(b, addr) == Len(b) < QOS_HEADER_LEN - 1 \/ addr.v # 4
QosIgnored(b, addr) == Len(b) < QOS_HEADER_LEN \/ addr.v # 4

\* handle from the header on: the bytes it builds, or the panic it ends in
\* (QosHeader::from_buffer makes four get_u32 calls)
QosReply(b, addr, public_ip, bld) ==
    LET header == QosHeaderFromBuffer(b)
        rest == Advance(b, QOS_HEADER_LEN)
    IN IF Len(b) < QOS_HEADER_LEN
       THEN Panicked("get_u32: buffer too short")
       ELSE IF IsAddressProbe(header)
       THEN IF ~CanGetU32(rest)
            THEN Panicked("get_u32: buffer too short")
            ELSE [tag |-> "out", ver |-> 1,
                  out |-> QosResponseV1Write([header |-> header,
                              timestamp |-> GetU32(rest), ip |-> public_ip,
                              port |-> addr.port])]
       ELSE IF ~CanGetU32(rest)
            THEN Panicked("get_u32: buffer too short")
            ELSE LET probe_count == GetU32(rest)
                     payload == Advance(rest, 4)
                 IN IF Len(payload) < PAYLOAD_TRIM /\ bld = "debug"
                    THEN Panicked("attempt to subtract with overflow")
                    ELSE [tag |-> "out", ver |-> 2,
                          out |-> QosResponseV2Write([header |-> header,
                                      probe_count |-> probe_count, ubps |-> UBPS,
                                      port |-> ResponseV2Port(addr),
                                      payload |-> Truncate(payload,
                                          WrappingSub(Len(payload), PAYLOAD_TRIM))])]

(***************************************************************************)
(* public_address and its cache: udp.rs.                                   *)
(***************************************************************************)
Unset == [tag |-> "Unset"]
Set(value, expires) == [tag |-> "Set", value |-> value, expires |-> expires]

\* public_address: `Set { value, expires }` with time.lt(expires)
Fresh(c, time) == c.tag = "Set" /\ time < c.expires

\* what one endpoint gives: reqwest::get, response.text() or ip.parse() fails,
\* or the text parses to an address
LookupIps == {<<198, 51, 100, 7>>, <<198, 51, 100, 8>>}
LookupResults == {None} \cup {Some(ip) : ip \in LookupIps}

\* the addresses a machine can have on its local interface
LocalAddresses == {None, Some(<<192, 168, 1, 20>>)}

\* what public_address() may return to handle
PublicAddressResults == {None} \cup {Some(ip) : ip \in LookupIps}

\* the write sections started so far and those about to be
RoundsStarted ==
    Len(rounds) + Cardinality({t \in Tasks : task[t].pc = "pa_write"})

\* public_address up to the end of its read section: the read guard is
\* taken, a value that has not expired is returned, the guard is released.
\* The id of the outcome counts the lookups the call made.
PaRead(t) ==
    /\ t \in PaTasks /\ Free(t) /\ CanRead(lock3)
    /\ IF Fresh(cache, now)
       THEN Step(t, Finished("public_address", Some(cache.value)))
       ELSE /\ RoundsStarted < limits.pa
            /\ Step(t, Started("public_address", "pa_write"))
    /\ UNCHANGED <<pavars, limits, build, NEXT_ID, m1, m2, lock1, lock2, chan, sent,
                   drawn, issued, pushed, takes>>

\* public_address: PUBLIC_ADDR_CACHE.write().await returns the guard
PaWrite(t) ==
    /\ task[t].pc = "pa_write" /\ CanWrite(lock3)
    /\ lock3' = WriteLocked(lock3, t)
    /\ rounds' = Append(rounds, [by |-> t, at |-> now, fresh |-> Fresh(cache, now),
                                 found |-> cache, lookups |-> 0, stored |-> None])
    /\ Step(t, [task[t] EXCEPT !.pc = "pa_get"])
    /\ UNCHANGED <<cache, now, local, limits, build, NEXT_ID, m1, m2, lock1, lock2,
                   chan, sent, drawn, issued, pushed, takes>>

\* what public_address ends with after its loop: `value?`, the store into the
\* cache with expires = now + ADDR_CACHE_TIME, Some(value)
PaStore(c, value, time) ==
    IF value.tag = "Some" THEN Set(value.v, time + ADDR_CACHE_TIME) ELSE c

\* public_address: one turn of the loop over the endpoints, and the end of the
\* function when the turn was the last one
PaGet(t) ==
    /\ task[t].pc = "pa_get"
    /\ \E r \in LookupResults :
         LET n == task[t].id + 1
             last == r.tag = "Some" \/ n = LOOKUP_ADDRESSES
             i == Len(rounds)
         IN /\ rounds' = [rounds EXCEPT ![i].lookups = n,
                            ![i].stored = IF r.tag = "Some"
                                          THEN Some(Set(r.v, now + ADDR_CACHE_TIME))
                                          ELSE None]
            /\ IF last
               THEN /\ cache' = PaStore(cache, r, now)
                    /\ lock3' = Released(lock3, t)
                    /\ Step(t, [Finished("public_address", r) EXCEPT !.id = n])
               ELSE /\ UNCHANGED <<cache, lock3>>
                    /\ Step(t, [task[t] EXCEPT !.id = n])
    /\ UNCHANGED <<now, local, limits, build, NEXT_ID, m1, m2, lock1, lock2, chan,
                   sent, drawn, issued, pushed, takes>>

\* time passes: by a second, up to MaxDrift seconds in a row, or by the time
\* the cache keeps a value
TimeSteps == {1, ADDR_CACHE_TIME}
Tick ==
    /\ \E d \in TimeSteps :
         /\ now + d <= ADDR_CACHE_TIME + MaxDrift
         /\ d = 1 => (now % ADDR_CACHE_TIME) < MaxDrift
         /\ now' = now + d
    /\ outcome' = Idle
    /\ UNCHANGED <<cache, lock3, rounds, local, limits, build, NEXT_ID, m1, m2,
                   lock1, lock2, chan, task, sent, drawn, issued, pushed, takes>>

\* the datagrams clients send: header for token k and body_len bytes of body
\* (probe count or timestamp 10, then payload bytes); body_len -1 cuts the header
QosPayload == <<101, 102, 103, 104, 105, 106, 107, 108>>
QosDatagram(k, body_len) ==
    LET hdr == PutU32(2) \o PutU32(k[1]) \o PutU32(k[2]) \o PutU32(7)
        body == PutU32(10) \o QosPayload
    IN IF body_len < 0 THEN SubSeq(hdr, 1, QOS_HEADER_LEN - 1)
       ELSE hdr \o SubSeq(body, 1, body_len)
QosBodyLens == {-1, 0, 2, 4, 7, 12}

\* the header of QosDatagram(k, body_len) as the client holds it
QosDatagramHeader(k) ==
    [u1 |-> 2, request_id |-> k[1], request_secret |-> k[2], probe_number |-> 7]

\* u32 values with every byte different, with one byte set, and the largest
\* the model checker's integers hold
U32Inputs == {7, 100, 16909060, 2147483647}

\* the headers and bodies clients send to exercise the codecs: a body is the
\* first word (V1 timestamp, V2 probe count) and a payload of len bytes, or
\* too short to hold the first word
HeaderInputs ==
    [u1 : {2, 16909060}, request_id : {1, 16909060}, request_secret : {0, 7},
     probe_number : {7, 2147483647}]
PayloadOf(len) == [i \in 1 .. len |-> 100 + i]
PayloadLens == {0, PAYLOAD_TRIM - 1, PAYLOAD_TRIM, PAYLOAD_TRIM + 1, 50}
BodyInputs ==
    {<<>>, <<0, 0>>} \cup {PutU32(w) \o PayloadOf(n) : w \in U32Inputs, n \in PayloadLens}

\* what recv_from hands to handle: the bytes, and the header the client encoded
QosDatagrams ==
    IF limits.codec = 0
    THEN {[hdr |-> QosDatagramHeader(k), buf |-> QosDatagram(k, n)] :
              k \in TokenInputs, n \in QosBodyLens}
    ELSE {[hdr |-> h, buf |-> QosHeaderWrite(h) \o b] :
              h \in HeaderInputs, b \in BodyInputs}
QosSenders == {V4(<<10, 0, 0, 5>>, 50000), V4(<<203, 0, 113, 9>>, 7777), V6(50000)}

\* start_server: recv_from and the spawn of handle
QosRecvFrom(u) ==
    /\ u \in QosTasks /\ Free(u) /\ Len(sent) < limits.qos
    /\ \E d \in QosDatagrams, a \in QosSenders :
         Step(u, [Started("qos_handle", "qos_handle") EXCEPT
                     !.addr = a, !.buf = d.buf, !.arg = d.hdr])
    /\ UNCHANGED <<pavars, limits, build, NEXT_ID, m1, m2, lock1, lock2, chan, sent, drawn,
                   issued, pushed, takes>>

\* handle: from the length check to the send_to
QosHandle(u) ==
    /\ task[u].pc = "qos_handle"
    /\ LET b == task[u].buf
           a == task[u].addr
       IN IF QosIgnored(b, a)
          THEN /\ Step(u, [Finished("qos_handle", [tag |-> "dropped"]) EXCEPT
                               !.addr = a, !.buf = b, !.arg = task[u].arg])
               /\ sent' = sent
          ELSE \E pa \in (IF build = "debug" /\ (IsLoopback(a.ip) \/ IsPrivate(a.ip))
                          THEN PublicAddressResults ELSE {None}) :
               LET public_ip == IF pa.tag = "Some" THEN pa.v ELSE a.ip
                   r == QosReply(b, a, public_ip, build)
               IN IF r.tag = "panic"
                  THEN /\ Step(u, [Aborted("qos_handle", r.msg) EXCEPT
                                       !.addr = a, !.buf = b, !.arg = task[u].arg])
                       /\ sent' = sent
                  ELSE \E ok \in BOOLEAN :
                       /\ sent' = IF ok
                                  THEN Append(sent, [sock |-> "qos", to |-> a,
                                                     data |-> r.out])
                                  ELSE sent
                       /\ Step(u, [Finished("qos_handle",
                                     [tag |-> IF ok THEN "sent" ELSE "send_failed",
                                      out |-> r.out]) EXCEPT
                                     !.addr = a, !.buf = b, !.arg = task[u].arg])
    /\ UNCHANGED <<pavars, limits, build, NEXT_ID, m1, m2, lock1, lock2, chan, drawn, issued,
                   pushed, takes>>

(***************************************************************************)
(* The process after main has built QService::default() and started the    *)
(* three servers.                                                          *)
(***************************************************************************)
Builds == {"debug", "release"}

InitState ==
    /\ NEXT_ID = FIRST_ID
    /\ m1 = << >>
    /\ m2 = << >>
    /\ lock1 = Unlocked
    /\ lock2 = Unlocked
    /\ chan = << >>
    /\ task = [t \in Tasks |-> Idle]
    /\ sent = << >>
    /\ drawn = << >>
    /\ issued = << >>
    /\ pushed = << >>
    /\ takes = << >>
    /\ outcome = Idle
    /\ cache = Unset
    /\ lock3 = Unlocked
    /\ now = 0
    /\ rounds = << >>

\* The store under every handler that uses it.  The build profile changes
\* nothing but the QoS engine's handle, which takes no step here.
Init ==
    /\ InitState
    /\ build = "release"
    /\ local = None
    /\ limits = [alloc |-> MaxAlloc, fw |-> MaxFwPackets, qos |-> 0, pa |-> 0, codec |-> 0]

Next ==
    \/ \E t \in HttpTasks : QosAddress(t)
    \/ \E t \in HttpTasks : QosUnknown(t)
    \/ \E t \in HttpTasks : QosLatency(t)
    \/ \E t \in HttpTasks : CrdFetchAdd(t)
    \/ \E t \in HttpTasks : CrdInsert(t)
    \/ \E t \in HttpTasks : Firewall(t)
    \/ \E t \in HttpTasks : CfdFetchAdd(t)
    \/ \E t \in HttpTasks : CfdInsert(t)
    \/ \E t \in HttpTasks : Firetype(t)
    \/ \E t \in HttpTasks : FtRecv(t)
    \/ \E t \in HttpTasks : Lookup(t)
    \/ \E f \in FwTasks : FwRecvFrom(f)
    \/ \E f \in FwTasks : FwSend(f)

Spec == Init /\ [][Next]_vars

\* The same under the scheduling of the runtime: a store operation that holds
\* a guard has no await before it returns, so it runs on.
FairStore ==
    \A t \in HttpTasks :
        /\ WF_vars(CrdFetchAdd(t)) /\ WF_vars(CrdInsert(t))
        /\ WF_vars(CfdFetchAdd(t)) /\ WF_vars(CfdInsert(t))

SpecLive == Init /\ [][Next]_vars /\ FairStore

\* Firewall-type collections: the firewall and firetype handlers and the ingress.
InitFw ==
    /\ InitState
    /\ build = "release"
    /\ local = None
    /\ limits = [alloc |-> MaxFwAlloc, fw |-> MAX_ADDRS + ExtraPackets, qos |-> 0,
                 pa |-> 0, codec |-> 0]

NextFw ==
    \/ \E t \in HttpTasks : Firewall(t)
    \/ \E t \in HttpTasks : CfdFetchAdd(t)
    \/ \E t \in HttpTasks : CfdInsert(t)
    \/ \E t \in HttpTasks : Firetype(t)
    \/ \E t \in HttpTasks : FtRecv(t)
    \/ \E f \in FwTasks : FwRecvFrom(f)
    \/ \E f \in FwTasks : FwSend(f)

SpecFw == InitFw /\ [][NextFw]_vars

\* Two firewall records and the datagrams routed to them.
InitRoute ==
    /\ InitState
    /\ build = "release"
    /\ local = None
    /\ limits = [alloc |-> MaxRouteAlloc, fw |-> MaxRoutePackets, qos |-> 0,
                 pa |-> 0, codec |-> 0]

SpecRoute == InitRoute /\ [][NextFw]_vars

\* The same under the scheduling of the runtime: a task that is ready to run
\* (a collection whose recv has a message, a handle about to send) runs.
FairFw ==
    /\ \A t \in HttpTasks : WF_vars(FtRecv(t))
    /\ \A f \in FwTasks : WF_vars(FwSend(f))

InitFwLive ==
    /\ InitState
    /\ build = "release"
    /\ local = None
    /\ limits = [alloc |-> MaxFwAlloc, fw |-> MAX_ADDRS + ExtraLive, qos |-> 0,
                 pa |-> 0, codec |-> 0]

SpecFwLive == InitFwLive /\ [][NextFw]_vars /\ FairFw

\* The QoS engine next to the allocations its probes refer to.
InitQos ==
    /\ InitState
    /\ build \in Builds
    /\ local = None
    /\ limits = [alloc |-> MaxQosAlloc, fw |-> 0, qos |-> MaxQosPackets, pa |-> 0,
                 codec |-> 0]

NextQos ==
    \/ \E t \in HttpTasks : QosLatency(t)
    \/ \E t \in HttpTasks : CrdFetchAdd(t)
    \/ \E t \in HttpTasks : CrdInsert(t)
    \/ \E u \in QosTasks : QosRecvFrom(u)
    \/ \E u \in QosTasks : QosHandle(u)

SpecQos == InitQos /\ [][NextQos]_vars

\* The public address cache under the handle tasks that call public_address.
InitPa ==
    /\ InitState
    /\ build = "debug"
    /\ local \in LocalAddresses
    /\ limits = [alloc |-> 0, fw |-> 0, qos |-> 0, pa |-> MaxRounds,
                 codec |-> 0]

NextPa ==
    \/ \E t \in PaTasks : PaRead(t)
    \/ \E t \in PaTasks : PaWrite(t)
    \/ \E t \in PaTasks : PaGet(t)
    \/ Tick

SpecPa == InitPa /\ [][NextPa]_vars

\* The codecs of the QoS engine under headers and bodies of every shape.
InitCodec ==
    /\ InitState
    /\ build \in Builds
    /\ local = None
    /\ limits = [alloc |-> 0, fw |-> 0, qos |-> MaxCodecPackets, pa |-> 0,
                 codec |-> 1]

NextCodec ==
    \/ \E u \in QosTasks : QosRecvFrom(u)
    \/ \E u \in QosTasks : QosHandle(u)

SpecCodec == InitCodec /\ [][NextCodec]_vars

\* Both UDP servers under datagrams they ignore, next to a firewall record
\* and its collection.  No firewall datagram for a known token is taken here,
\* and the build profile, which matters to answered datagrams only, is fixed.
InitDrop ==
    /\ InitState
    /\ build = "release"
    /\ local = None
    /\ limits = [alloc |-> MaxDropAlloc, fw |-> 0, qos |-> MaxDropPackets,
                 pa |-> 0, codec |-> 0]

NextDrop ==
    \/ \E t \in HttpTasks : Firewall(t)
    \/ \E t \in HttpTasks : CfdFetchAdd(t)
    \/ \E t \in HttpTasks : CfdInsert(t)
    \/ \E t \in HttpTasks : Firetype(t)
    \/ \E f \in FwTasks : FwRecvFrom(f)
    \/ \E u \in QosTasks : QosRecvFrom(u)
    \/ \E u \in QosTasks : QosHandle(u)

SpecDrop == InitDrop /\ [][NextDrop]_vars

(***************************************************************************)
(* Properties.                                                             *)
(***************************************************************************)
\* the tokens create_request_data ("m1") or create_firewall_data ("m2") returned
Allocated(tbl) ==
    {issued[i].tok : i \in {j \in 1 .. Len(issued) : issued[j].tbl = tbl}}

SENTINEL == <<1, 0>>

\* C1: for every token create_firewall_data returned, at most one
\* take_firewall_rx call ever returned a receiver, the first call for it did,
\* every later call returned nothing (also once the receiver is dropped), and
\* at most one task drains its channel.
C1_ReceiverTakenOnce ==
    \A k \in Allocated("m2") :
        /\ takes[k].hits <= 1
        /\ takes[k].called => takes[k].hits = 1
        /\ (takes[k].hits = 1) <=> (m2[k].rx = None)
        /\ Cardinality({t \in Tasks : task[t].pc = "recv" /\ task[t].key = k}) <= 1
        /\ (\E t \in Tasks : task[t].pc = "recv" /\ task[t].key = k)
               => chan[k].rx_alive /\ takes[k].hits = 1 /\ ~takes[k].done

\* a take_firewall_rx call for a token whose receiver was taken and has been
\* dropped since returned nothing
C1_Witness ==
    /\ outcome.kind = "firetype" /\ outcome.pc = "panicked"
    /\ outcome.key \in Allocated("m2")
    /\ takes[outcome.key].done /\ ~chan[outcome.key].rx_alive

\* C2: _get_request_data(t) returns the record stored at allocation for every
\* token create_request_data has returned, in every later state.
C2_RecordKept ==
    \A i \in 1 .. Len(issued) :
        issued[i].tbl = "m1" => GetRequestData(m1, issued[i].tok) = Some(issued[i].data)

\* a lookup of the first token returned its record after a later allocation
C2_Witness ==
    /\ Len(issued) >= 2 /\ issued[1].tbl = "m1"
    /\ outcome.kind = "lookup" /\ outcome.key = issued[1].tok
    /\ outcome.res = Some(issued[1].data)
    /\ issued[2].data # issued[1].data

\* C3: no create_request_data or create_firewall_data call has returned the
\* sentinel (1, 0).
C3_SentinelNeverIssued ==
    /\ \A i \in 1 .. Len(issued) : issued[i].tok # SENTINEL
    /\ outcome.kind \in {"qos_latency", "firewall"}
           => <<outcome.res.request_id, outcome.res.request_secret>> # SENTINEL

\* both create calls have returned, one of them a token whose secret is 0
C3_Witness ==
    /\ Allocated("m1") # {} /\ Allocated("m2") # {}
    /\ outcome.kind \in {"qos_latency", "firewall"}
    /\ outcome.res.request_secret = 0

\* C4: the ids the counter hands out are strictly increasing in the order they
\* are drawn, and the tokens returned by both create calls have pairwise
\* distinct ids, each one drawn from the counter.
C4_IdsDistinct ==
    /\ \A i, j \in 1 .. Len(drawn) : i < j => drawn[i] < drawn[j]
    /\ \A i, j \in 1 .. Len(issued) : i # j => issued[i].tok[1] # issued[j].tok[1]
    /\ \A i \in 1 .. Len(issued) : \E j \in 1 .. Len(drawn) : drawn[j] = issued[i].tok[1]
    /\ \A t, u \in Tasks :
           (t # u /\ task[t].pc \in {"crd_secret", "cfd_secret"}
                  /\ task[u].pc \in {"crd_secret", "cfd_secret"})
               => task[t].id # task[u].id

\* two calls on the two tables ran concurrently: the one that drew the larger
\* id returned first
C4_Witness ==
    /\ Len(issued) = 2
    /\ issued[1].tbl # issued[2].tbl
    /\ issued[1].tok[1] > issued[2].tok[1]

\* C5: a token that neither create call returned for the table (an allocated
\* id with another secret included) gets nothing from _get_request_data,
\* get_firewall_tx and take_firewall_rx, and take_firewall_rx leaves every
\* stored receiver where it is.
C5_KeyedByPair ==
    /\ \A k \in TokenInputs :
          /\ k \notin Allocated("m1") => GetRequestData(m1, k) = None
          /\ k \notin Allocated("m2") =>
                /\ GetFirewallTx(m2, k) = None
                /\ TakeFirewallRx(m2, k) = None
                /\ AfterTake(m2, k) = m2
    /\ (outcome.kind = "lookup" /\ outcome.key \notin Allocated("m1"))
           => outcome.res = None
    /\ (outcome.kind = "firetype" /\ outcome.key \notin Allocated("m2"))
           => outcome.pc = "panicked"
    /\ (outcome.kind = "fw_handle" /\ outcome.res.tag # "dropped"
            /\ outcome.key \notin Allocated("m2"))
           => outcome.pc = "panicked"

\* firetype was called with the id of a firewall token and another secret:
\* it got nothing, and the token's receiver is still stored
C5_Witness ==
    /\ outcome.kind = "firetype" /\ outcome.pc = "panicked"
    /\ \E a \in Allocated("m2") :
          /\ a[1] = outcome.key[1] /\ a[2] # outcome.key[2]
          /\ m2[a].rx = Some(a)

\* C6: a collection never holds more than 5 addresses: it runs only while it
\* holds fewer than 5, it ends with at most 5, these are the first addresses
\* sent for its token, and what is sent for the token afterwards is not queued.
C6_AtMostFive ==
    /\ \A t \in Tasks : task[t].pc = "recv" => Len(task[t].addrs) < MAX_ADDRS
    /\ \A k \in DOMAIN takes :
          takes[k].done =>
             /\ Len(takes[k].addrs) <= MAX_ADDRS
             /\ Len(takes[k].addrs) <= Len(pushed[k])
             /\ takes[k].addrs = SubSeq(pushed[k], 1, Len(takes[k].addrs))
             /\ chan[k].queue = <<>>
    /\ (outcome.kind = "firetype" /\ outcome.pc = "done")
           => Len(outcome.addrs) <= MAX_ADDRS

\* the ingress sent a sixth address for a token whose collection had ended
C6_Witness ==
    /\ outcome.kind = "fw_handle" /\ outcome.res.tag = "pushed"
    /\ takes[outcome.key].done
    /\ Len(takes[outcome.key].addrs) = MAX_ADDRS
    /\ Len(pushed[outcome.key]) > MAX_ADDRS

\* the port field of a QosResponseV2 datagram
ResponsePort(d) == GetU16(SubSeq(d, QOS_HEADER_LEN + 9, QOS_HEADER_LEN + 10))
ResponseToken(d) ==
    <<QosHeaderFromBuffer(d).request_id, QosHeaderFromBuffer(d).request_secret>>

\* C7: every response to a correlated probe whose token create_request_data
\* returned carries the client_port stored for the token.
C7_StoredPortEchoed ==
    \A i \in 1 .. Len(sent) :
        (ResponseToken(sent[i].data) # SENTINEL
             /\ ResponseToken(sent[i].data) \in Allocated("m1"))
            => ResponsePort(sent[i].data) = m1[ResponseToken(sent[i].data)].client_port

\* C8: the engine answers no correlated probe whose token has no record.
C8_NoRecordNoResponse ==
    (outcome.kind = "qos_handle" /\ outcome.res.tag = "sent"
         /\ ResponseToken(outcome.res.out) # SENTINEL)
        => ResponseToken(outcome.res.out) \in DOMAIN m1

\* what a firewall datagram must leave alone when its token is unknown
StoreAndChannels == <<NEXT_ID, m1, m2, lock1, lock2, chan, sent, pushed, takes>>

\* C9: a well-formed firewall datagram whose token create_firewall_data never
\* returned ends its handler without a send: no datagram leaves the socket,
\* the store and every channel stay as they were, and only datagrams with a
\* known token reach a channel.
C9_UnknownTokenDropped ==
    [][ /\ (outcome'.kind = "fw_handle" /\ outcome'.pc = "panicked")
            => /\ outcome'.key \notin Allocated("m2")
               /\ UNCHANGED StoreAndChannels
        /\ (outcome'.kind = "fw_handle" /\ outcome'.res.tag = "pushed")
            => outcome'.key \in Allocated("m2")
        /\ \A f \in Tasks : task'[f].pc = "fw_send" => task'[f].key \in Allocated("m2")
        /\ \A i \in 1 .. Len(sent') : sent'[i].sock # "fw"
      ]_vars

\* a datagram with an unknown token was handled while a collection was waiting
C9_Witness ==
    /\ outcome.kind = "fw_handle" /\ outcome.pc = "panicked"
    /\ outcome.key \notin Allocated("m2")
    /\ \E t \in Tasks : task[t].pc = "recv" /\ task[t].addrs # <<>>

\* C10: a firetype request whose take_firewall_rx returns nothing (receiver
\* taken before, or unknown token) ends in a panic, not in a QFireType result
\* and not in a collection, and leaves the store and the channels as they were.
C10_MissingReceiverFails ==
    [][ /\ (outcome'.kind = "firetype" /\ outcome'.pc = "panicked")
            => /\ TakeFirewallRx(m2, outcome'.key) = None
               /\ outcome'.res # QFireType
               /\ outcome'.addrs = <<>>
               /\ UNCHANGED StoreAndChannels
        /\ \A t \in Tasks :
              (task[t].pc = "idle" /\ task'[t].pc = "recv")
                  => TakeFirewallRx(m2, task'[t].key) = Some(task'[t].key)
        /\ (outcome'.kind = "firetype" /\ outcome'.pc = "done")
            => \E t \in Tasks : task[t].pc = "recv" /\ task'[t].pc = "idle"
      ]_vars

\* firetype was called for a token whose receiver had been taken
C10_Witness ==
    /\ outcome.kind = "firetype" /\ outcome.pc = "panicked"
    /\ outcome.key \in Allocated("m2")
    /\ m2[outcome.key].rx = None

\* the refreshes that stored a value: what they stored
Refreshed == {rounds[i].stored.v : i \in {j \in 1 .. Len(rounds) : rounds[j].stored.tag = "Some"}}

\* C11: a public_address call that gets the write guard while the cache holds
\* a value that has not expired (another caller has just refreshed it) makes
\* no outbound lookup: there is one round of lookups per expiry.
C11_OneRoundPerExpiry ==
    \A i \in 1 .. Len(rounds) : rounds[i].fresh => rounds[i].lookups = 0

\* C12: once a refresh has stored Set{value, expires}, the cache holds that
\* value at every time before expires, a call at such a time returns it from
\* the read section (no write guard, no lookup), and the cache is never Unset
\* again.
C12_CachedUntilExpiry ==
    /\ Refreshed # {} => cache.tag = "Set"
    /\ \A c \in Refreshed :
          now < c.expires =>
             /\ Fresh(cache, now) /\ cache.value = c.value
             /\ (outcome.kind = "public_address" /\ outcome.id = 0)
                    => outcome.res = Some(c.value)
    /\ (outcome.kind = "public_address" /\ outcome.id = 0)
           => outcome.res = Some(cache.value)

\* C13: a public_address call whose lookups all failed returns the machine's
\* local address and has stored it, and returns nothing only when the machine
\* has no such address.
C13_LocalFallback ==
    (outcome.kind = "public_address" /\ outcome.id = LOOKUP_ADDRESSES
         /\ rounds[Len(rounds)].stored = None)
        => /\ outcome.res = local
           /\ local.tag = "Some" => cache = Set(local.v, now + ADDR_CACHE_TIME)

\* a handle call that wrote a response, and what it received and wrote
Answered == outcome.kind = "qos_handle" /\ outcome.res.tag \in {"sent", "send_failed"}
AnsweredV1 == Answered /\ ResponseToken(outcome.buf) = SENTINEL
AnsweredV2 == Answered /\ ResponseToken(outcome.buf) # SENTINEL

\* the four fields of a header, in wire order
HeaderFields(h) == <<h.u1, h.request_id, h.request_secret, h.probe_number>>

\* C14: QosHeader::write gives 16 bytes, the four fields in order and each
\* big-endian, and QosHeader::from_buffer of these bytes gives the header
\* back, for the headers clients encode and for the datagrams handle receives.
C14_HeaderRoundTrip ==
    /\ \A h \in HeaderInputs :
          /\ Len(QosHeaderWrite(h)) = QOS_HEADER_LEN
          /\ QosHeaderFromBuffer(QosHeaderWrite(h)) = h
          /\ \A i \in 1 .. 4 :
                LET w == SubSeq(QosHeaderWrite(h), 4 * i - 3, 4 * i)
                IN w[1] * 16777216 + w[2] * 65536 + w[3] * 256 + w[4]
                       = HeaderFields(h)[i]
    /\ QosHeaderWrite([u1 |-> 16909060, request_id |-> 1, request_secret |-> 0,
                       probe_number |-> 7])
           = <<1, 2, 3, 4, 0, 0, 0, 1, 0, 0, 0, 0, 0, 0, 0, 7>>
    /\ \A u \in QosTasks :
          (task[u].pc = "qos_handle" /\ Len(task[u].buf) >= QOS_HEADER_LEN)
              => QosHeaderFromBuffer(task[u].buf) = task[u].arg
    /\ Answered
           => QosHeaderFromBuffer(SubSeq(outcome.res.out, 1, QOS_HEADER_LEN)) = outcome.arg

\* handle answered a datagram whose header has every byte of u1 different and
\* the largest probe number: the header it wrote decodes to the client's
C14_Witness ==
    /\ Answered
    /\ outcome.arg.u1 = 16909060 /\ outcome.arg.probe_number = 2147483647
    /\ SubSeq(outcome.res.out, 1, 4) = <<1, 2, 3, 4>>
    /\ QosHeaderFromBuffer(outcome.res.out) = outcome.arg

\* the payload a correlated probe carries after its probe count
ClientPayload(b) == Advance(b, QOS_HEADER_LEN + 4)

\* C15: a V1 response is 30 bytes long; a V2 response to a payload of L bytes
\* is 16 + 4 + 4 + 2 + (L - 6) bytes long and ends with the first L - 6 bytes
\* of that payload.
C15_ResponseLengths ==
    /\ AnsweredV1 => Len(outcome.res.out) = 30
    /\ AnsweredV2 =>
          LET L == Len(ClientPayload(outcome.buf))
              out == outcome.res.out
          IN /\ Len(out) = 16 + 4 + 4 + 2 + (L - PAYLOAD_TRIM)
             /\ Advance(out, 26) = SubSeq(ClientPayload(outcome.buf), 1, L - PAYLOAD_TRIM)

\* u32::from_le_bytes
GetU32Le(b) == b[1] + b[2] * 256 + b[3] * 65536 + b[4] * 16777216

\* C16: in every V2 response bytes 16..20 are the received big-endian probe
\* count written little-endian, bytes 20..24 are 00 5B 8D 80, and the first
\* 16 bytes are the received header.
C16_ProbeCountLittleEndian ==
    AnsweredV2 =>
        LET out == outcome.res.out
            N == GetU32(SubSeq(outcome.buf, QOS_HEADER_LEN + 1, QOS_HEADER_LEN + 4))
        IN /\ GetU32Le(SubSeq(out, 17, 20)) = N
           /\ SubSeq(out, 17, 20) = <<N % 256, (N \div 256) % 256,
                                      (N \div 65536) % 256, N \div 16777216>>
           /\ SubSeq(out, 21, 24) = <<0, 91, 141, 128>>
           /\ GetU32(SubSeq(out, 21, 24)) = UBPS
           /\ SubSeq(out, 1, 16) = SubSeq(outcome.buf, 1, 16)

\* a V2 response to the probe count 0x01020304: its bytes 16..20 are 04 03 02 01
C16_Witness ==
    /\ AnsweredV2
    /\ SubSeq(outcome.buf, 17, 20) = <<1, 2, 3, 4>>
    /\ SubSeq(outcome.res.out, 17, 20) = <<4, 3, 2, 1>>
    /\ outcome.arg.request_id = 16909060

\* the addresses handle may put into a V1 response to a datagram from addr:
\* the source address, or what public_address resolved (debug builds, for
\* loopback and private sources)
ResponseIps(addr) ==
    {addr.ip} \cup (IF build = "debug" /\ (IsLoopback(addr.ip) \/ IsPrivate(addr.ip))
                    THEN LookupIps ELSE {})

\* the V1 layout: header, timestamp, IPv4 address, source port, 4 zero bytes
IsV1Response(out, buf, addr) ==
    /\ Len(out) = 30
    /\ SubSeq(out, 1, 16) = SubSeq(buf, 1, 16)
    /\ SubSeq(out, 17, 20) = SubSeq(buf, 17, 20)
    /\ SubSeq(out, 21, 24) \in ResponseIps(addr)
    /\ SubSeq(out, 25, 26) = <<addr.port \div 256, addr.port % 256>>
    /\ SubSeq(out, 27, 30) = <<0, 0, 0, 0>>

\* the V2 layout up to the payload
IsV2Response(out, buf, addr) ==
    /\ Len(out) >= 26
    /\ SubSeq(out, 1, 16) = SubSeq(buf, 1, 16)
    /\ SubSeq(out, 17, 20) = <<buf[20], buf[19], buf[18], buf[17]>>
    /\ SubSeq(out, 21, 24) = <<0, 91, 141, 128>>

\* C17: handle answers with the V1 layout exactly when the header has
\* request_id = 1 and request_secret = 0, and with the V2 layout for every
\* other pair; the V1 response is the received header and timestamp, an IPv4
\* address (resolved or the source's), the source port and 4 zero bytes; and a
\* handle step leaves the store, its locks and its channels as they were.
C17_SentinelIsV1 ==
    [][ /\ AnsweredV1'
            => /\ outcome'.arg.request_id = 1 /\ outcome'.arg.request_secret = 0
               /\ IsV1Response(outcome'.res.out, outcome'.buf, outcome'.addr)
        /\ AnsweredV2'
            => /\ outcome'.arg.request_id # 1 \/ outcome'.arg.request_secret # 0
               /\ IsV2Response(outcome'.res.out, outcome'.buf, outcome'.addr)
               /\ ~IsV1Response(outcome'.res.out, outcome'.buf, outcome'.addr)
        /\ outcome'.kind = "qos_handle"
            => UNCHANGED <<NEXT_ID, m1, m2, lock1, lock2, chan, drawn, issued>>
      ]_vars

\* a V1 probe from a private address was answered with the resolved address
\* while a create_request_data call held the write guard of m1
C17_Witness ==
    /\ AnsweredV1 /\ outcome.res.tag = "sent"
    /\ SubSeq(outcome.res.out, 21, 24) # outcome.addr.ip
    /\ lock1.w # ""

\* C18: a QoS datagram of fewer than 16 bytes or from an IPv6 sender, and a
\* firewall datagram of fewer than 8 bytes, ends its handler with nothing
\* sent, nothing put on a channel and the store as it was.
C18_IgnoredDatagrams ==
    [][ /\ (outcome'.kind = "qos_handle"
              /\ (Len(outcome'.buf) < 16 \/ outcome'.addr.v = 6))
            => /\ outcome'.res.tag = "dropped"
               /\ UNCHANGED StoreAndChannels
        /\ (outcome'.kind = "fw_handle" /\ outcome'.res.tag # "pushed"
              /\ outcome'.id < 8)
            => /\ outcome'.res.tag = "dropped"
               /\ UNCHANGED StoreAndChannels
      ]_vars

\* a complete V1 probe from an IPv6 sender was ignored while the store held a
\* firewall record whose collection was waiting
C18_Witness ==
    /\ outcome.kind = "qos_handle" /\ outcome.res.tag = "dropped"
    /\ outcome.addr.v = 6 /\ Len(outcome.buf) >= QOS_HEADER_LEN + 4
    /\ \E t \in Tasks : task[t].pc = "recv"
    /\ sent = <<>>

\* take_firewall_rx has handed out the receiver of k
Taken(k) == k \in DOMAIN takes /\ takes[k].hits = 1

\* every sender of the channel of k is dropped
Closed(k) == chan[k].senders = 0

\* C19: once the receiver of a token is taken and five firewall datagrams
\* for the token have been sent on, or its channel is closed, the collection
\* returns, with the addresses it had accumulated: the first five sent on, or
\* all of them when the channel closed earlier.
C19_CollectionReturns ==
    \A k \in TokenInputs :
        (Taken(k) /\ (Len(pushed[k]) >= MAX_ADDRS \/ Closed(k)))
            ~> (/\ Taken(k) /\ takes[k].done
                /\ takes[k].addrs = SubSeq(pushed[k], 1, Len(takes[k].addrs))
                /\ Len(takes[k].addrs) = MAX_ADDRS \/ Closed(k))

\* a collection returned with its fifth address
C19_Witness ==
    /\ outcome.kind = "firetype" /\ outcome.pc = "done"
    /\ Len(outcome.addrs) = MAX_ADDRS
    /\ takes[outcome.key].done
    /\ Len(pushed[outcome.key]) = MAX_ADDRS

\* what the collection of token k holds so far: nothing before it starts
Accumulated(k) ==
    IF \E t \in Tasks : task[t].pc = "recv" /\ task[t].key = k
    THEN task[CHOOSE t \in Tasks : task[t].pc = "recv" /\ task[t].key = k].addrs
    ELSE <<>>

\* C20: while the receiver of a token lives, what its collection holds followed
\* by what its channel buffers is the sequence of sender addresses the ingress
\* sent on for that token, in order and with repeats, from the allocation on
\* (also before the receiver is taken); a collection ends with a prefix of that
\* sequence; and a channel grows only by the sender address of a datagram
\* whose header carried its token.
C20_RoutedInOrder ==
    [][ /\ \A k \in DOMAIN chan' :
              /\ chan'[k].rx_alive => Accumulated(k)' \o chan'[k].queue = pushed'[k]
              /\ takes'[k].done
                    => takes'[k].addrs = SubSeq(pushed'[k], 1, Len(takes'[k].addrs))
              /\ \A i \in 1 .. Len(pushed'[k]) : pushed'[k][i] \in FwSenders
        /\ \A k \in DOMAIN chan :
              Len(chan'[k].queue) > Len(chan[k].queue)
                  => /\ outcome'.kind = "fw_handle" /\ outcome'.res.tag = "pushed"
                     /\ outcome'.key = k
                     /\ \E f \in FwTasks : task[f].pc = "fw_send" /\ task[f].key = k
                                              /\ task[f].addr = outcome'.addr
                     /\ chan'[k].queue = Append(chan[k].queue, outcome'.addr)
                     /\ \A j \in DOMAIN chan \ {k} : chan'[j] = chan[j]
        /\ (outcome'.kind = "firetype" /\ outcome'.pc = "done")
              => outcome'.addrs = SubSeq(pushed'[outcome'.key], 1, Len(outcome'.addrs))
      ]_vars

\* a collection holds two addresses of the same sender, while an address from
\* another sender is buffered on the channel of another token whose receiver
\* has not been taken
C20_Witness ==
    \E t \in Tasks, j \in DOMAIN chan :
        /\ task[t].pc = "recv" /\ task[t].key # j
        /\ takes[j].hits = 0
        /\ Len(task[t].addrs) = 2 /\ task[t].addrs[1] = task[t].addrs[2]
        /\ chan[j].queue # <<>> /\ chan[j].queue[1] # task[t].addrs[1]
        /\ pushed[task[t].key] = task[t].addrs

\* C21: every firewall record stays in the store with its sender, so the
\* channel of an allocated token always has a sender and rx.recv() never
\* returns None: a collection that has returned holds exactly 5 addresses, a
\* collection for a token with fewer than 5 datagrams sent on has not returned,
\* and a collection at an empty channel cannot take a step.
C21_NeverClosedWhileAlive ==
    /\ \A k \in DOMAIN chan :
          /\ k \in DOMAIN m2 /\ m2[k].tx = k
          /\ chan[k].senders >= 1
          /\ takes[k].done
                => /\ Len(takes[k].addrs) = MAX_ADDRS
                   /\ Len(pushed[k]) >= MAX_ADDRS
          /\ Len(pushed[k]) < MAX_ADDRS => ~takes[k].done
    /\ (outcome.kind = "firetype" /\ outcome.pc = "done")
           => Len(outcome.addrs) = MAX_ADDRS
    /\ \A t \in HttpTasks :
          (task[t].pc = "recv" /\ chan[task[t].key].queue = <<>>)
              => ~ENABLED FtRecv(t)

\* a collection holds 4 addresses and waits at an empty channel whose only
\* sender is the one the record keeps, no ingress handler running
C21_Witness ==
    \E t \in HttpTasks :
        /\ task[t].pc = "recv" /\ Len(task[t].addrs) = MAX_ADDRS - 1
        /\ chan[task[t].key].queue = <<>>
        /\ chan[task[t].key].senders = 1
        /\ \A f \in FwTasks : Free(f)
        /\ ~takes[task[t].key].done

\* the points of create_request_data and of create_firewall_data
InCrd(t) == task[t].pc \in {"crd_id", "crd_secret"}
InCfd(t) == task[t].pc \in {"cfd_id", "cfd_secret"}

\* C22: a task holds a guard of m1 only inside create_request_data and a
\* guard of m2 only inside create_firewall_data (every other store operation
\* takes and releases its guard within one step), never both, and never
\* while it waits on a channel or after it has returned; every guard that is
\* held is released and every store operation returns, whatever the other
\* tasks do; a waiting collection holds no guard.
C22_GuardsReleased ==
    /\ [](\A t \in Tasks :
             /\ Holds(lock1, t) => InCrd(t) /\ lock1 = WriteLocked(Unlocked, t)
             /\ Holds(lock2, t) => InCfd(t) /\ lock2 = WriteLocked(Unlocked, t)
             /\ InCrd(t) => Holds(lock1, t) /\ ~Holds(lock2, t)
             /\ InCfd(t) => Holds(lock2, t) /\ ~Holds(lock1, t)
             /\ task[t].pc \in {"recv", "fw_send", "idle"}
                    => ~Holds(lock1, t) /\ ~Holds(lock2, t))
    /\ (lock1 # Unlocked) ~> (lock1 = Unlocked)
    /\ (lock2 # Unlocked) ~> (lock2 = Unlocked)
    /\ \A t \in HttpTasks : (InCrd(t) \/ InCfd(t)) ~> Free(t)

\* create_firewall_data holds the write guard of m2 while a collection waits
\* at an empty channel and an ingress handler is about to send
C22_Witness ==
    \E t, u \in HttpTasks, f \in FwTasks :
        /\ task[t].pc = "recv" /\ chan[task[t].key].queue = <<>>
        /\ InCfd(u) /\ lock2.w = u
        /\ task[f].pc = "fw_send" /\ task[f].key = task[t].key

\* C23: handle ends every datagram of at least 16 bytes from an IPv4 sender,
\* whatever follows the header, by returning (a response handed to send_to, or
\* the packet dropped), never by a panic, and the payload of a V2 response is
\* no longer than the payload received.
C23_NoAbortOnShortBody ==
    (outcome.kind = "qos_handle" /\ Len(outcome.buf) >= QOS_HEADER_LEN
         /\ outcome.addr.v = 4)
        => /\ outcome.pc = "done"
           /\ outcome.res.tag \in {"sent", "send_failed", "dropped"}
           /\ AnsweredV2 =>
                 /\ Len(outcome.res.out) >= 26
                 /\ Len(outcome.res.out) - 26 <= Len(ClientPayload(outcome.buf))

====
